---- MODULE Spec2Model ----
(***************************************************************************)
(* Model of the logdata service (cmd/server/main.go).  The source holds    *)
(* two builds of the server:                                               *)
(*   "account"  : lines 1-245, tenant key "account", X-Account header on   *)
(*                writes, handlers registered without any middleware;      *)
(*   "contract" : lines 246-515, tenant key "contract", every handler      *)
(*                wrapped in authMiddleware.                               *)
(* One build runs per process; variable variant says which.                *)
(*                                                                         *)
(* Text is modelled where the code compares or converts it: a timestamp    *)
(* text is a sequence of character codes, a numeric query parameter is the *)
(* pair (leading integer, trailing junk) that fmt.Sscanf("%d") sees.       *)
(***************************************************************************)
EXTENDS Integers, Sequences, FiniteSets, TLC

VARIABLES variant, store, req, resp

vars == <<variant, store, req, resp>>

\* ------------------------------------------------------------------ bounds
MaxStore == 2
MaxPageStore == 3
HoursPerDay == 2
BulkRows == 101

\* "var limit, offset int64 = 100, 0"
DefaultLimit == 100

DefaultOffset == 0

\* ------------------------------------------------------- time and its texts
\* An instant is a natural number of hours; 0 is Go's zero time.Time.

Day(t) == t \div HoursPerDay

Hour(t) == t % HoursPerDay

\* time.Time.IsZero
IsZero(t) == t = 0

\* RFC3339 text of an instant, "<day>T<hour>Z": what a JSON body carries and
\* what time.Time marshals to.  Codes: digit d is 48+d, 'T' is 84, 'Z' is 90.
Rfc3339(t) == <<48 + Day(t), 84, 48 + Hour(t), 90>>

\* The text go-sqlite3 binds for a time.Time argument,
\* "2006-01-02 15:04:05.999999999-07:00": "<day> <hour>+00:00".
\* ' ' is 32, '+' is 43.
SqliteFormat(t) == <<48 + Day(t), 32, 48 + Hour(t), 43>>

IsDigits(text) ==
    /\ Len(text) = 4
    /\ text[1] >= 48 /\ text[1] <= 57
    /\ text[3] >= 48 /\ text[3] < 48 + HoursPerDay

TextInstant(text) == (text[1] - 48) * HoursPerDay + (text[3] - 48)

\* time.Time.UnmarshalJSON: RFC3339 only.
ParseRfc3339(text) ==
    IF IsDigits(text) /\ text[2] = 84 /\ text[4] = 90
    THEN [ok |-> TRUE, t |-> TextInstant(text)]
    ELSE [ok |-> FALSE, t |-> 0]

\* The driver reading a DATETIME column back into a time.Time.
ParseSqlite(text) ==
    IF IsDigits(text) /\ text[2] = 32 /\ text[4] = 43
    THEN [ok |-> TRUE, t |-> TextInstant(text)]
    ELSE [ok |-> FALSE, t |-> 0]

\* SQLite compares two TEXT values bytewise (memcmp, then length).
RECURSIVE TextLeq(_, _)
TextLeq(a, b) ==
    IF a = <<>> THEN TRUE
    ELSE IF b = <<>> THEN FALSE
    ELSE IF Head(a) < Head(b) THEN TRUE
    ELSE IF Head(a) > Head(b) THEN FALSE
    ELSE TextLeq(Tail(a), Tail(b))

\* ------------------------------------------------------ numeric parameters
\* A raw query value for level, limit or offset.  present: the value is not
\* the empty string; hasNum/num: it starts with a decimal integer; junk:
\* something follows the integer (or stands alone).
NoRaw == [present |-> FALSE, hasNum |-> FALSE, num |-> 0, junk |-> FALSE]

RawNum(n) == [present |-> TRUE, hasNum |-> TRUE, num |-> n, junk |-> FALSE]

RawNumJunk(n) == [present |-> TRUE, hasNum |-> TRUE, num |-> n, junk |-> TRUE]

RawJunk == [present |-> TRUE, hasNum |-> FALSE, num |-> 0, junk |-> TRUE]

\* fmt.Sscanf(s, "%d", &x): err == nil as soon as a leading integer was read;
\* what follows it is left unread.
SscanfOk(raw) == raw.hasNum

\* A *int / *int64 field: nil, or a pointer to a value.
Nil == [set |-> FALSE, val |-> 0]

Ptr(n) == [set |-> TRUE, val |-> n]

\* The three "if query.Get(k) != "" { if Sscanf ok { params.K = &k } }" blocks.
ParseParam(raw) == IF raw.present /\ SscanfOk(raw) THEN Ptr(raw.num) ELSE Nil

\* ------------------------------------------------------------ the registry
\* CONTRACT_SECRET_KEYS as the Dockerfile sets it.
contractSecretKeys == [c \in {"cont123", "cont456"} |->
                         IF c = "cont123" THEN "secret123" ELSE "secret456"]

\* ----------------------------------------------------------------- LogData
\* json.Unmarshal / Decoder.Decode into LogData: an absent field keeps its
\* zero value, a timestamp that is not RFC3339 is a decode error.
DecodeJSON(body) ==
    IF ~body.wellformed THEN [err |-> TRUE, tenant |-> "", system |-> "", user |-> "",
                              module |-> "", task |-> "", Timestamp |-> 0,
                              msg |-> "", level |-> 0]
    ELSE IF body.timestamp = <<>>
    THEN [err |-> FALSE, tenant |-> body.tenant, system |-> body.system,
          user |-> body.user, module |-> body.module, task |-> body.task,
          Timestamp |-> 0, msg |-> body.msg, level |-> body.level]
    ELSE [err |-> ~ParseRfc3339(body.timestamp).ok, tenant |-> body.tenant,
          system |-> body.system, user |-> body.user, module |-> body.module,
          task |-> body.task, Timestamp |-> ParseRfc3339(body.timestamp).t,
          msg |-> body.msg, level |-> body.level]

\* Validate without its timestamp check.
ValidateNoTimestamp(l) ==
    IF l.tenant = "" \/ l.system = "" \/ l.user = "" \/ l.module = ""
       \/ l.task = "" \/ l.msg = ""
    THEN "missing required fields"
    ELSE ""

\* LogData.Validate: "" when valid, else the error text.
Validate(l) ==
    IF l.tenant = "" \/ l.system = "" \/ l.user = "" \/ l.module = ""
       \/ l.task = "" \/ l.msg = ""
    THEN "missing required fields"
    ELSE IF IsZero(l.Timestamp) THEN "invalid timestamp"
    ELSE ""

\* fmt.Sprintf(`{"error":"Validation failed: %v"}`, err)
ValidationFailed(err) ==
    IF err = "missing required fields"
    THEN "Validation failed: missing required fields"
    ELSE "Validation failed: invalid timestamp"

\* --------------------------------------------------------------- responses
\* dbCalls counts the statements the request sent to the database.
ErrorResponse(status, text) ==
    [status |-> status, error |-> text, message |-> "", json |-> "object",
     rows |-> <<>>, dbCalls |-> 0]

StorageErrorResponse(text) ==
    [status |-> 500, error |-> text, message |-> "", json |-> "object",
     rows |-> <<>>, dbCalls |-> 1]

SavedResponse ==
    [status |-> 200, error |-> "", message |-> "Log data saved successfully",
     json |-> "object", rows |-> <<>>, dbCalls |-> 1]

\* json.NewEncoder(w).Encode(logs): a nil slice encodes as null.
RowsResponse(rows) ==
    [status |-> 200, error |-> "", message |-> "",
     json |-> IF rows = <<>> THEN "null" ELSE "array", rows |-> rows, dbCalls |-> 1]

NoResponse ==
    [status |-> 0, error |-> "", message |-> "", json |-> "", rows |-> <<>>,
     dbCalls |-> 0]

\* ---------------------------------------------------------- authMiddleware
HasBearerPrefix(authHeader) == authHeader.scheme = "Bearer"

\* The contract the middleware resolves: from the body on POST, from the
\* query on GET, "" for any other method.
MiddlewareContract(r) ==
    IF r.method = "POST" THEN DecodeJSON(r.body).tenant
    ELSE IF r.method = "GET" THEN r.query.tenant
    ELSE ""

\* The response authMiddleware writes, or NoResponse when it calls the handler.
authMiddleware(r) ==
    IF ~HasBearerPrefix(r.authorization)
    THEN ErrorResponse(401, "Invalid or missing Authorization header")
    ELSE IF r.method = "POST" /\ DecodeJSON(r.body).err
    THEN ErrorResponse(400, "Invalid request body")
    ELSE IF r.method = "GET" /\ r.query.tenant = ""
    THEN ErrorResponse(400, "Contract query parameter required")
    ELSE IF \/ MiddlewareContract(r) \notin DOMAIN contractSecretKeys
            \/ r.authorization.cred # contractSecretKeys[MiddlewareContract(r)]
    THEN ErrorResponse(401, "Unauthorized: Invalid secret key for contract")
    ELSE NoResponse

\* ------------------------------------------------------------- persistence
\* NewRow with an identifier that is not fresh.
NewRowStaleId(l, rows) ==
    [id |-> 1, tenant |-> l.tenant, system |-> l.system,
     user |-> l.user, module |-> l.module, task |-> l.task,
     timestamp |-> SqliteFormat(l.Timestamp), msg |-> l.msg, level |-> l.level]

\* The row db.Exec inserts: the id is AUTOINCREMENT (no row is ever deleted),
\* the time.Time argument is bound as its SqliteFormat text.
NewRow(l, rows) ==
    [id |-> Len(rows) + 1, tenant |-> l.tenant, system |-> l.system,
     user |-> l.user, module |-> l.module, task |-> l.task,
     timestamp |-> SqliteFormat(l.Timestamp), msg |-> l.msg, level |-> l.level]

\* What a handler hands back: the response, and the row it inserted if any.
Outcome(response, inserted, row) ==
    [resp |-> response, inserted |-> inserted, row |-> row]

NoRow ==
    [id |-> 0, tenant |-> "", system |-> "", user |-> "", module |-> "",
     task |-> "", timestamp |-> <<>>, msg |-> "", level |-> 0]

Rejected(response) == Outcome(response, FALSE, NoRow)

\* db.Exec(INSERT ...): dbOk is whether the statement succeeded.
ExecInsert(l, rows, dbOk) ==
    IF dbOk THEN Outcome(SavedResponse, TRUE, NewRow(l, rows))
    ELSE Rejected(StorageErrorResponse("Failed to save log data"))

\* ------------------------------------------------------- handlePostLogData
\* Contract build (lines 380-414).
handlePostLogData(r, rows, dbOk) ==
    IF r.method # "POST" THEN Rejected(ErrorResponse(405, "Method not allowed"))
    ELSE IF DecodeJSON(r.body).err
    THEN Rejected(ErrorResponse(400, "Invalid request body"))
    ELSE IF Validate(DecodeJSON(r.body)) # ""
    THEN Rejected(ErrorResponse(400, ValidationFailed(Validate(DecodeJSON(r.body)))))
    ELSE ExecInsert(DecodeJSON(r.body), rows, dbOk)

\* Account build (lines 82-132).
handlePostLogDataAccount(r, rows, dbOk) ==
    IF r.method # "POST" THEN Rejected(ErrorResponse(405, "Method not allowed"))
    ELSE IF r.xaccount = ""
    THEN Rejected(ErrorResponse(400, "X-Account header required"))
    ELSE IF DecodeJSON(r.body).err
    THEN Rejected(ErrorResponse(400, "Invalid request body"))
    ELSE IF Validate(DecodeJSON(r.body)) # ""
    THEN Rejected(ErrorResponse(400, ValidationFailed(Validate(DecodeJSON(r.body)))))
    ELSE IF DecodeJSON(r.body).tenant # r.xaccount
    THEN Rejected(ErrorResponse(400, "Account in body must match X-Account header"))
    ELSE ExecInsert(DecodeJSON(r.body), rows, dbOk)

\* -------------------------------------------------------- handleGetLogData
\* QueryParams as the handler fills it from r.URL.Query().
QueryParams(q) ==
    [tenant |-> q.tenant, System |-> q.system, User |-> q.user,
     Module |-> q.module, Task |-> q.task, Level |-> ParseParam(q.level),
     StartTime |-> q.start_time, EndTime |-> q.end_time,
     Limit |-> ParseParam(q.limit), Offset |-> ParseParam(q.offset)]

Pred(col, op, s, n, text) == [col |-> col, op |-> op, s |-> s, n |-> n, text |-> text]

\* Predicates with the condition on the tenant left out.
PredicatesNoTenant(p) ==
    (IF p.System # "" THEN <<Pred("system", "=", p.System, 0, <<>>)>> ELSE <<>>)
    \o (IF p.User # "" THEN <<Pred("user", "=", p.User, 0, <<>>)>> ELSE <<>>)
    \o (IF p.Module # "" THEN <<Pred("module", "=", p.Module, 0, <<>>)>> ELSE <<>>)
    \o (IF p.Task # "" THEN <<Pred("task", "=", p.Task, 0, <<>>)>> ELSE <<>>)
    \o (IF p.Level.set THEN <<Pred("level", "=", "", p.Level.val, <<>>)>> ELSE <<>>)
    \o (IF p.StartTime # <<>> THEN <<Pred("timestamp", ">=", "", 0, p.StartTime)>> ELSE <<>>)
    \o (IF p.EndTime # <<>> THEN <<Pred("timestamp", "<=", "", 0, p.EndTime)>> ELSE <<>>)

\* The WHERE clause and its args, appended in the code's order.
Predicates(p) ==
    <<Pred("tenant", "=", p.tenant, 0, <<>>)>>
    \o (IF p.System # "" THEN <<Pred("system", "=", p.System, 0, <<>>)>> ELSE <<>>)
    \o (IF p.User # "" THEN <<Pred("user", "=", p.User, 0, <<>>)>> ELSE <<>>)
    \o (IF p.Module # "" THEN <<Pred("module", "=", p.Module, 0, <<>>)>> ELSE <<>>)
    \o (IF p.Task # "" THEN <<Pred("task", "=", p.Task, 0, <<>>)>> ELSE <<>>)
    \o (IF p.Level.set THEN <<Pred("level", "=", "", p.Level.val, <<>>)>> ELSE <<>>)
    \o (IF p.StartTime # <<>> THEN <<Pred("timestamp", ">=", "", 0, p.StartTime)>> ELSE <<>>)
    \o (IF p.EndTime # <<>> THEN <<Pred("timestamp", "<=", "", 0, p.EndTime)>> ELSE <<>>)

\* The statement text after the WHERE clause: LIMIT and OFFSET are written
\* only when the parameter was supplied and scanned.
Statement(p, orderBy) ==
    [where |-> Predicates(p), orderBy |-> orderBy,
     hasLimit |-> p.Limit.set, limit |-> p.Limit.val,
     hasOffset |-> p.Offset.set, offset |-> p.Offset.val]

\* SQLite evaluating one predicate on one row.
Satisfies(row, pr) ==
    IF pr.col = "tenant" THEN row.tenant = pr.s
    ELSE IF pr.col = "system" THEN row.system = pr.s
    ELSE IF pr.col = "user" THEN row.user = pr.s
    ELSE IF pr.col = "module" THEN row.module = pr.s
    ELSE IF pr.col = "task" THEN row.task = pr.s
    ELSE IF pr.col = "level" THEN row.level = pr.n
    ELSE IF pr.op = ">=" THEN TextLeq(pr.text, row.timestamp)
    ELSE TextLeq(row.timestamp, pr.text)

Matches(row, where) == \A i \in 1..Len(where) : Satisfies(row, where[i])

\* The rows the WHERE clause keeps, in stored (id) order.
Select(rows, where) ==
    LET Keep(row) == Matches(row, where) IN SelectSeq(rows, Keep)

Reverse(s) == [i \in 1..Len(s) |-> s[Len(s) + 1 - i]]

\* ORDER BY timestamp DESC: any arrangement that is descending in the stored
\* text; SQLite leaves the order of rows with equal keys unspecified.
TimestampOrders(m) ==
    { [i \in 1..Len(m) |-> m[p[i]]] :
        p \in { f \in [1..Len(m) -> 1..Len(m)] :
                  /\ \A i, j \in 1..Len(m) : i # j => f[i] # f[j]
                  /\ \A i, j \in 1..Len(m) :
                        i < j => TextLeq(m[f[j]].timestamp, m[f[i]].timestamp) } }

\* ORDER BY id DESC: rows are stored in id order.
Orderings(m, orderBy) == IF orderBy = "id" THEN {Reverse(m)} ELSE TimestampOrders(m)

\* LIMIT n OFFSET k on an ordered result: a negative LIMIT is no limit, a
\* negative OFFSET is 0.
Window(s, hasLimit, limit, hasOffset, offset) ==
    LET from == IF hasOffset /\ offset > 0 THEN offset ELSE 0
        upto == IF hasLimit /\ limit >= 0 /\ from + limit < Len(s)
                THEN from + limit ELSE Len(s)
    IN  SubSeq(s, from + 1, upto)

\* SQLite's grammar has OFFSET only after LIMIT: "... ORDER BY x OFFSET k"
\* does not prepare and db.Query returns an error.
SyntaxOk(st) == st.hasOffset => st.hasLimit

\* db.Query: the result sets the statement may yield.
QueryResults(st, rows) ==
    { Window(o, st.hasLimit, st.limit, st.hasOffset, st.offset) :
        o \in Orderings(Select(rows, st.where), st.orderBy) }

\* rows.Scan into LogData: the DATETIME text is parsed back into a time.Time;
\* a row that does not scan is skipped.
ScanRow(row) ==
    [ID |-> row.id, tenant |-> row.tenant, system |-> row.system,
     user |-> row.user, module |-> row.module, task |-> row.task,
     Timestamp |-> ParseSqlite(row.timestamp).t, msg |-> row.msg,
     level |-> row.level]

ScanRows(rs) ==
    LET Scans(row) == ParseSqlite(row.timestamp).ok
        kept == SelectSeq(rs, Scans)
    IN  [i \in 1..Len(kept) |-> ScanRow(kept[i])]

\* The query, once the handler has its parameters: dbOk is whether the
\* database answered, result is the result set it gave.
RunQuery(st, dbOk, result) ==
    IF ~SyntaxOk(st) \/ ~dbOk
    THEN StorageErrorResponse("Failed to fetch log data")
    ELSE RowsResponse(ScanRows(result))

\* Contract build (lines 416-515).
handleGetLogData(r, dbOk, result) ==
    IF r.method # "GET" THEN ErrorResponse(405, "Method not allowed")
    ELSE RunQuery(Statement(QueryParams(r.query), "timestamp"), dbOk, result)

\* Account build (lines 134-245).
handleGetLogDataAccount(r, dbOk, result) ==
    IF r.method # "GET" THEN ErrorResponse(405, "Method not allowed")
    ELSE IF r.query.tenant = ""
    THEN ErrorResponse(400, "Account query parameter required")
    ELSE RunQuery(Statement(QueryParams(r.query), "id"), dbOk, result)

\* ---------------------------------------------------------------- requests
Body(tenant, system, user, module, task, timestamp, msg, level) ==
    [wellformed |-> TRUE, tenant |-> tenant, system |-> system, user |-> user,
     module |-> module, task |-> task, timestamp |-> timestamp, msg |-> msg,
     level |-> level]

\* A body that is not JSON (or no body at all).
BadBody ==
    [wellformed |-> FALSE, tenant |-> "", system |-> "", user |-> "",
     module |-> "", task |-> "", timestamp |-> <<>>, msg |-> "", level |-> 0]

Query(tenant, system, user, module, task, level, start, end, limit, offset) ==
    [tenant |-> tenant, system |-> system, user |-> user, module |-> module,
     task |-> task, level |-> level, start_time |-> start, end_time |-> end,
     limit |-> limit, offset |-> offset]

TenantOnly(tenant) ==
    Query(tenant, "", "", "", "", NoRaw, <<>>, <<>>, NoRaw, NoRaw)

NoQuery == TenantOnly("")

Header(scheme, cred) == [scheme |-> scheme, cred |-> cred]

Bearer(cred) == Header("Bearer", cred)

Request(path, method, authorization, xaccount, body, query) ==
    [path |-> path, method |-> method, authorization |-> authorization,
     xaccount |-> xaccount, body |-> body, query |-> query]

NoRequest == Request("", "", Header("", ""), "", BadBody, NoQuery)

\* ------------------------------------------------------------------ routes
\* http.HandleFunc("/logdata/", ...): the contract build wraps the handler in
\* authMiddleware (line 327), the account build does not (line 73).
LogDataRoute(r, rows, dbOk) ==
    IF variant = "contract"
    THEN IF authMiddleware(r) # NoResponse THEN Rejected(authMiddleware(r))
         ELSE handlePostLogData(r, rows, dbOk)
    ELSE handlePostLogDataAccount(r, rows, dbOk)

\* http.HandleFunc("/getdata", ...) (lines 328 and 74).
GetDataRoute(r, dbOk, result) ==
    IF variant = "contract"
    THEN IF authMiddleware(r) # NoResponse THEN authMiddleware(r)
         ELSE handleGetLogData(r, dbOk, result)
    ELSE handleGetLogDataAccount(r, dbOk, result)

\* The statement a retrieve request runs in the running build.
StatementOf(r) ==
    Statement(QueryParams(r.query), IF variant = "contract" THEN "timestamp" ELSE "id")

\* ----------------------------------------------------------------- actions
\* One request to /logdata, from the first middleware line to the response.
PostLogData(inputs, cap) ==
    /\ resp = NoResponse
    /\ \E r \in inputs, dbOk \in BOOLEAN :
         LET out == LogDataRoute(r, store, dbOk) IN
         /\ out.inserted => Len(store) < cap
         /\ store' = IF out.inserted THEN Append(store, out.row) ELSE store
         /\ req' = r
         /\ resp' = out.resp
    /\ UNCHANGED variant

\* One request to /getdata.
GetLogData(inputs) ==
    /\ resp = NoResponse
    /\ \E r \in inputs, dbOk \in BOOLEAN :
         \E result \in QueryResults(StatementOf(r), store) :
            /\ req' = r
            /\ resp' = GetDataRoute(r, dbOk, result)
    /\ UNCHANGED <<variant, store>>

\* The response is written and the handler returns.
Complete ==
    /\ resp # NoResponse
    /\ req' = NoRequest
    /\ resp' = NoResponse
    /\ UNCHANGED <<variant, store>>

Init ==
    /\ variant \in {"account", "contract"}
    /\ store = <<>>
    /\ req = NoRequest
    /\ resp = NoResponse

\* ------------------------------------------------------------------ inputs
\* Scenario A's record, and three more valid ones.
A1 == Body("cont123", "sys456", "user789", "auth", "task101", Rfc3339(1),
           "User logged in", 30)

A2 == Body("cont123", "sys999", "user000", "billing", "task202", Rfc3339(2),
           "Payment failed", 40)

B1 == Body("cont456", "sys456", "user789", "auth", "task101", Rfc3339(1),
           "User logged in", 30)

U1 == Body("cont999", "sys456", "user789", "auth", "task101", Rfc3339(1),
           "User logged in", 30)

\* A1 with one required field empty, with a timestamp that is omitted, zero
\* or not RFC3339, and with other levels.
Bodies ==
    {A1, A2, B1, U1, BadBody}
    \cup {[A1 EXCEPT !.tenant = ""], [A1 EXCEPT !.system = ""],
          [A1 EXCEPT !.user = ""], [A1 EXCEPT !.module = ""],
          [A1 EXCEPT !.task = ""], [A1 EXCEPT !.msg = ""]}
    \cup {[A1 EXCEPT !.timestamp = <<>>], [A1 EXCEPT !.timestamp = Rfc3339(0)],
          [A1 EXCEPT !.timestamp = SqliteFormat(1)]}
    \cup {[A1 EXCEPT !.level = 0 - 5], [A1 EXCEPT !.level = 0]}

Headers ==
    {Header("", ""), Header("Basic", "secret123"), Bearer("secret123"),
     Bearer("secret456"), Bearer("wrong")}

Tenants == {"", "cont123", "cont456", "cont999"}

LogDataRequests ==
    { Request("/logdata", m, h, x, b, NoQuery) :
        m \in {"POST", "PUT"}, h \in Headers, x \in Tenants, b \in Bodies }
    \cup { Request("/logdata", "GET", h, x, BadBody, TenantOnly(t)) :
             h \in Headers, x \in {"", "cont123"}, t \in {"", "cont123"} }

GetDataRequests ==
    { Request("/getdata", "GET", h, "",  BadBody,
              Query(t, sys, "", "", "", NoRaw, <<>>, <<>>, lim, NoRaw)) :
        h \in Headers, t \in Tenants, sys \in {"", "sys456"},
        lim \in {NoRaw, RawNum(1)} }
    \cup { Request("/getdata", m, h, "", b, NoQuery) :
             m \in {"POST", "PUT"}, h \in Headers, b \in {A1, BadBody} }

\* A request the caller of tenant b.tenant sends with that tenant's secret.
ValidPost(b) ==
    Request("/logdata", "POST", Bearer(contractSecretKeys[b.tenant]), b.tenant,
            b, NoQuery)

ValidGet(q) ==
    Request("/getdata", "GET", Bearer(contractSecretKeys[q.tenant]), "",
            BadBody, q)

Shape(tenant, k, t) ==
    IF k = 1 THEN Body(tenant, "sys456", "user789", "auth", "task101", Rfc3339(t),
                       "User logged in", 30)
    ELSE IF k = 2 THEN Body(tenant, "sys999", "user789", "billing", "task101",
                            Rfc3339(t), "Payment failed", 40)
    ELSE Body(tenant, "sys456", "user000", "auth", "task202", Rfc3339(t),
              "Session closed", 30)

FilterBodies ==
    {Shape("cont123", 1, 1), Shape("cont123", 2, 2), Shape("cont123", 3, 3),
     Shape("cont123", 1, 3), Shape("cont456", 1, 2)}

\* Every combination of the equality filters and level, and every combination
\* of the two time bounds in either notation.
FilterQueries ==
    { Query("cont123", sys, usr, mod, tsk, lvl, <<>>, <<>>, NoRaw, NoRaw) :
        sys \in {"", "sys456"}, usr \in {"", "user789"}, mod \in {"", "auth"},
        tsk \in {"", "task101"},
        lvl \in {NoRaw, RawNum(30), RawJunk, RawNumJunk(30)} }
    \cup { Query("cont123", sys, "", "", "", lvl, st, en, NoRaw, NoRaw) :
             sys \in {"", "sys456"}, lvl \in {NoRaw, RawNum(30)},
             st \in {<<>>, SqliteFormat(2), Rfc3339(2)},
             en \in {<<>>, SqliteFormat(2), Rfc3339(2)} }
    \cup {TenantOnly("cont456")}

PageBodies ==
    { Shape("cont123", k, t) : k \in {1, 2}, t \in {1, 2} }
    \cup {Shape("cont456", 1, 2)}

PageQueries ==
    { Query("cont123", sys, "", "", "", NoRaw, <<>>, <<>>, lim, off) :
        sys \in {"", "sys456"},
        lim \in {NoRaw, RawNum(0), RawNum(1), RawNum(2), RawNum(0 - 1), RawJunk,
                 RawNumJunk(1)},
        off \in {NoRaw, RawNum(0), RawNum(1), RawNum(0 - 1), RawJunk} }

\* The requests of each family's callers.
FilterLogDataRequests == {ValidPost(b) : b \in FilterBodies}

FilterGetDataRequests == {ValidGet(q) : q \in FilterQueries}

PageLogDataRequests == {ValidPost(b) : b \in PageBodies}

PageGetDataRequests == {ValidGet(q) : q \in PageQueries}

BulkLogDataRequests == {ValidPost(A1)}

BulkGetDataRequests == {ValidGet(TenantOnly("cont123"))}

\* ---------------------------------------------------------- specifications
\* Every kind of request, well-formed or not.
Ingest == PostLogData(LogDataRequests, MaxStore)

Retrieve == GetLogData(GetDataRequests)

Next == Ingest \/ Retrieve \/ Complete

Spec == Init /\ [][Next]_vars

\* The same requests, to the contract build.
InitContract ==
    /\ variant = "contract"
    /\ store = <<>>
    /\ req = NoRequest
    /\ resp = NoResponse

SpecContract == InitContract /\ [][Next]_vars

\* Valid ingestion, retrieval under every combination of filters.
IngestFilter == PostLogData(FilterLogDataRequests, MaxStore)

RetrieveFilter == GetLogData(FilterGetDataRequests)

NextFilter == IngestFilter \/ RetrieveFilter \/ Complete

SpecFilter == Init /\ [][NextFilter]_vars

\* Valid ingestion, retrieval under every combination of limit and offset.
IngestPage == PostLogData(PageLogDataRequests, MaxPageStore)

RetrievePage == GetLogData(PageGetDataRequests)

NextPage == IngestPage \/ RetrievePage \/ Complete

SpecPage == Init /\ [][NextPage]_vars

\* One record ingested over and over, retrieved with no parameter but the
\* tenant.
InitBulk ==
    /\ variant = "account"
    /\ store = <<>>
    /\ req = NoRequest
    /\ resp = NoResponse

IngestBulk == PostLogData(BulkLogDataRequests, BulkRows)

RetrieveBulk == GetLogData(BulkGetDataRequests)

NextBulk == IngestBulk \/ RetrieveBulk \/ Complete

SpecBulk == InitBulk /\ [][NextBulk]_vars

\* ------------------------------------------------- vocabulary of the claims
IsIngest(r) == r.path = "/logdata" /\ r.method = "POST"

IsRetrieve(r) == r.path = "/getdata" /\ r.method = "GET"

\* The tenant a request names where its build looks for one: the contract
\* build in the body (POST) or the query (GET), the account build in the
\* X-Account header (POST) or the query (GET).
Named(r) ==
    IF variant = "contract" THEN MiddlewareContract(r)
    ELSE IF r.method = "POST" THEN r.xaccount
    ELSE IF r.method = "GET" THEN r.query.tenant
    ELSE ""

\* The request carries the bearer secret registered for the tenant it names.
Authentic(r) ==
    /\ r.authorization.scheme = "Bearer"
    /\ Named(r) \in DOMAIN contractSecretKeys
    /\ r.authorization.cred = contractSecretKeys[Named(r)]

Decodes(r) == ~DecodeJSON(r.body).err

AnyEmpty(l) ==
    \/ l.tenant = "" \/ l.system = "" \/ l.user = ""
    \/ l.module = "" \/ l.task = "" \/ l.msg = ""

Unauthorized == ErrorResponse(401, "Unauthorized: Invalid secret key for contract")

LastRow == store[Len(store)]

C2_WriteAttribution ==
    /\ (req.path = "/logdata" /\ resp = SavedResponse) =>
          Authentic(req) /\ LastRow.tenant = Named(req)
    /\ (IsIngest(req) /\ Authentic(req) /\ Decodes(req)
        /\ DecodeJSON(req.body).tenant # Named(req)) =>
          resp.status = 400 /\ resp.dbCalls = 0

\* What the contract build keeps of C2.
WriteAttributionContract == variant = "contract" => C2_WriteAttribution

\* What both builds keep of C2: the stored tenant is the named tenant.
WriteAttributionNamed ==
    (req.path = "/logdata" /\ resp = SavedResponse) =>
        /\ LastRow.tenant = Named(req)
        /\ LastRow.tenant = DecodeJSON(req.body).tenant

\* --------------------------------------------------------------------- C3
\* C3: an ingest or retrieve request that presents a bearer secret other
\* than the one registered for the tenant it names, or names a tenant the
\* registry does not know, gets the one 401 Unauthorized response and reaches
\* no database statement.
C3_Unauthorized ==
    (/\ IsIngest(req) \/ IsRetrieve(req)
     /\ HasBearerPrefix(req.authorization)
     /\ IsIngest(req) => Decodes(req)
     /\ Named(req) # ""
     /\ ~Authentic(req)) => resp = Unauthorized

\* What the contract build keeps of C3.
UnauthorizedContract == variant = "contract" => C3_Unauthorized

\* --------------------------------------------------------------------- C4
\* C4: a saved record is stored as submitted under a fresh identifier, and a
\* successful retrieve by its tenant with no parameter but the tenant returns
\* every stored record of the tenant exactly once, identifier included.
C4_ReadYourWrite ==
    /\ (IsIngest(req) /\ resp = SavedResponse) =>
          LET l == DecodeJSON(req.body) IN
          ScanRow(LastRow) =
              [ID |-> Len(store), tenant |-> l.tenant, system |-> l.system,
               user |-> l.user, module |-> l.module, task |-> l.task,
               Timestamp |-> l.Timestamp, msg |-> l.msg, level |-> l.level]
    /\ (/\ IsRetrieve(req) /\ Authentic(req)
        /\ req.query = TenantOnly(Named(req))
        /\ resp.status = 200) =>
          \A j \in 1..Len(store) :
             store[j].tenant = Named(req) =>
                /\ Cardinality({i \in 1..Len(resp.rows) :
                                   resp.rows[i] = ScanRow(store[j])}) = 1
                /\ ScanRow(store[j]).ID >= 1

\* Two records of one tenant and one of another are stored; the tenant reads
\* both of its own back.
C4_Witness ==
    /\ IsRetrieve(req) /\ Authentic(req)
    /\ req.query = TenantOnly("cont123")
    /\ resp.status = 200
    /\ Len(resp.rows) = 2
    /\ Len(store) = 2
    /\ resp.rows[1].Timestamp # resp.rows[2].Timestamp

\* --------------------------------------------------------------------- C5
\* The instant a start_time or end_time text denotes, in either notation.
InstantOf(text) ==
    IF ParseRfc3339(text).ok THEN ParseRfc3339(text).t ELSE ParseSqlite(text).t

\* The stored rows a retrieve request asks for: the tenant's, meeting every
\* supplied filter, time bounds compared as instants.
Wanted(q, row) ==
    /\ row.tenant = q.tenant
    /\ q.system = "" \/ row.system = q.system
    /\ q.user = "" \/ row.user = q.user
    /\ q.module = "" \/ row.module = q.module
    /\ q.task = "" \/ row.task = q.task
    /\ ~ParseParam(q.level).set \/ row.level = ParseParam(q.level).val
    /\ q.start_time = <<>> \/ InstantOf(q.start_time) <= ParseSqlite(row.timestamp).t
    /\ q.end_time = <<>> \/ ParseSqlite(row.timestamp).t <= InstantOf(q.end_time)

Returned == {resp.rows[i] : i \in 1..Len(resp.rows)}

\* C5: a successful retrieve without limit or offset returns exactly the
\* stored records of the tenant that meet every supplied filter, each once.
C5_FilterSemantics ==
    (IsRetrieve(req) /\ resp.status = 200) =>
        /\ Returned = {ScanRow(store[j]) : j \in {k \in 1..Len(store) :
                                                    Wanted(req.query, store[k])}}
        /\ Cardinality(Returned) = Len(resp.rows)

\* What the code keeps of C5: the claim for requests whose time bounds are
\* written the way the driver stores a time.
FilterSemanticsStoredNotation ==
    (/\ ParseSqlite(req.query.start_time).ok \/ req.query.start_time = <<>>
     /\ ParseSqlite(req.query.end_time).ok \/ req.query.end_time = <<>>)
        => C5_FilterSemantics

\* --------------------------------------------------------------------- C6
Min(a, b) == IF a < b THEN a ELSE b

\* The limit and offset C6 gives a request.
ClaimedLimit(q) ==
    IF ParseParam(q.limit).set THEN ParseParam(q.limit).val ELSE DefaultLimit

ClaimedOffset(q) ==
    IF ParseParam(q.offset).set THEN ParseParam(q.offset).val ELSE DefaultOffset

\* The full orderings of the records a request matches, as the build orders.
FullOrderings(r) ==
    { ScanRows(o) : o \in Orderings(Select(store, StatementOf(r).where),
                                    StatementOf(r).orderBy) }

\* C6: a successful retrieve returns the first L records from position O of
\* the full ordering, L being 100 and O being 0 when not supplied or not
\* scanned.
C6_Pagination ==
    (IsRetrieve(req) /\ resp.status = 200) =>
        \E full \in FullOrderings(req) :
            resp.rows = SubSeq(full, ClaimedOffset(req.query) + 1,
                               Min(Len(full), ClaimedOffset(req.query)
                                              + ClaimedLimit(req.query)))

\* What the code keeps of C6: the window when a limit of 0 or more was
\* supplied, and an offset of 0 or more or none.
PaginationWithLimit ==
    (/\ ParseParam(req.query.limit).set /\ ParseParam(req.query.limit).val >= 0
     /\ ParseParam(req.query.offset).val >= 0) => C6_Pagination

\* An offset without a limit is answered 500.
OffsetWithoutLimit ==
    (/\ IsRetrieve(req) /\ Authentic(req)
     /\ ParseParam(req.query.offset).set /\ ~ParseParam(req.query.limit).set)
        => resp.status = 500

\* --------------------------------------------------------------------- C7
\* C7: in a successful retrieve, a record with a later timestamp never comes
\* after one with an earlier timestamp.
C7_Ordering ==
    (IsRetrieve(req) /\ resp.status = 200) =>
        \A i, j \in 1..Len(resp.rows) :
            i < j => resp.rows[i].Timestamp >= resp.rows[j].Timestamp

\* What each build keeps of C7: the account build orders by identifier, the
\* contract build by timestamp.
OrderingPerBuild ==
    (IsRetrieve(req) /\ resp.status = 200) =>
        \A i, j \in 1..Len(resp.rows) :
            i < j => IF variant = "account"
                     THEN resp.rows[i].ID > resp.rows[j].ID
                     ELSE resp.rows[i].Timestamp >= resp.rows[j].Timestamp

\* --------------------------------------------------------------------- C8
\* C8: an authentic ingest request whose body decodes is answered 400
\* "missing required fields" when one of the six required fields is empty,
\* 400 "invalid timestamp" when they are all there and the timestamp is
\* omitted or zero, both without a database statement; with the six fields,
\* a timestamp and the authenticated tenant it reaches the insert, whatever
\* its level, and the saved row carries that level.
C8_Validation ==
    (IsIngest(req) /\ Authentic(req) /\ Decodes(req)) =>
        LET l == DecodeJSON(req.body) IN
        /\ AnyEmpty(l) =>
              resp = ErrorResponse(400, "Validation failed: missing required fields")
        /\ (~AnyEmpty(l) /\ IsZero(l.Timestamp)) =>
              resp = ErrorResponse(400, "Validation failed: invalid timestamp")
        /\ (~AnyEmpty(l) /\ ~IsZero(l.Timestamp) /\ l.tenant = Named(req)) =>
              /\ resp.dbCalls = 1
              /\ resp = SavedResponse
                 \/ resp = StorageErrorResponse("Failed to save log data")
              /\ resp = SavedResponse => LastRow.level = l.level

\* Scenario D: the timestamp is omitted.
C8_Witness ==
    /\ IsIngest(req) /\ Authentic(req)
    /\ req.body.wellformed /\ req.body.timestamp = <<>>
    /\ resp.status = 400
    /\ resp.error = "Validation failed: invalid timestamp"

\* --------------------------------------------------------------------- C9
\* C9: an ingest or retrieve request without a bearer credential is answered
\* 401 "Invalid or missing Authorization header"; one with a bearer
\* credential and no tenant is answered 400.
C9_AuthGateErrors ==
    (IsIngest(req) \/ IsRetrieve(req)) =>
        /\ ~HasBearerPrefix(req.authorization) =>
              resp = ErrorResponse(401, "Invalid or missing Authorization header")
        /\ (/\ HasBearerPrefix(req.authorization)
            /\ IsIngest(req) => Decodes(req)
            /\ Named(req) = "") => resp.status = 400

\* What the contract build keeps of C9: the 401 for a missing bearer
\* credential on both routes, the 400 for a missing tenant on retrieve.
AuthGateErrorsContract ==
    (variant = "contract" /\ (IsIngest(req) \/ IsRetrieve(req))) =>
        /\ ~HasBearerPrefix(req.authorization) =>
              resp = ErrorResponse(401, "Invalid or missing Authorization header")
        /\ (/\ HasBearerPrefix(req.authorization)
            /\ IsRetrieve(req)
            /\ Named(req) = "") => resp.status = 400
        /\ (/\ HasBearerPrefix(req.authorization)
            /\ IsIngest(req) /\ Decodes(req)
            /\ Named(req) = "") => resp = Unauthorized

\* -------------------------------------------------------------------- C10
\* The request passed authentication and validation.
Passes(r) ==
    /\ Authentic(r)
    /\ Decodes(r)
    /\ Validate(DecodeJSON(r.body)) = ""
    /\ DecodeJSON(r.body).tenant = Named(r)

\* C10: a step leaves the store alone or appends one row to it, the latter
\* only when an ingest request is answered "saved"; a request sends at most
\* one statement, an ingest request one exactly when it passes authentication
\* and validation; a 500 leaves the store alone.
C10_StoreFrame ==
    [][/\ \/ store' = store
          \/ /\ Len(store') = Len(store) + 1
             /\ SubSeq(store', 1, Len(store)) = store
             /\ IsIngest(req') /\ resp' = SavedResponse
       /\ resp'.dbCalls <= 1
       /\ IsIngest(req') => (resp'.dbCalls = 1 <=> Passes(req'))
       /\ resp'.status = 500 => store' = store]_vars

\* What both builds keep of C10: all of it but the credential check, which
\* the account build does not make.
StoreFrameGate ==
    [][/\ \/ store' = store
          \/ /\ Len(store') = Len(store) + 1
             /\ SubSeq(store', 1, Len(store)) = store
             /\ IsIngest(req') /\ resp' = SavedResponse
       /\ resp'.dbCalls <= 1
       /\ IsIngest(req') =>
             (resp'.dbCalls = 1 <=>
                 /\ variant = "contract" => Authentic(req')
                 /\ Named(req') # ""
                 /\ Decodes(req')
                 /\ Validate(DecodeJSON(req'.body)) = ""
                 /\ DecodeJSON(req'.body).tenant = Named(req'))
       /\ ~IsIngest(req') /\ req'.path = "/logdata" => resp'.dbCalls = 0
       /\ resp'.status = 500 => store' = store]_vars

====
